---- MODULE Spec2Model ----
(***************************************************************************)
(* A model of niceplots/utils.py: the helpers adjust_spines,               *)
(* draggable_legend, auto_place_legend, horiz_bar and stacked_plots, each  *)
(* as one action over the plotting objects it mutates.                     *)
(*                                                                         *)
(* The plotting library is modelled by the effect of the calls the helpers *)
(* make, for the library versions the module was written against          *)
(* (Spine.set_smart_bounds and Figure.align_labels exist, numpy.linspace   *)
(* accepts the float that numpy.ceil returns).                             *)
(*                                                                         *)
(* Real numbers are exact rationals <<num, den>> with den > 0; inputs are  *)
(* drawn from values that binary floating point represents exactly, so the *)
(* arithmetic of the code and of the model agree.                          *)
(***************************************************************************)
EXTENDS Integers, Sequences, FiniteSets, TLC

VARIABLES
    ax,        \* the panel adjust_spines is called on (spines, xaxis, yaxis)
    ncalls,    \* number of adjust_spines calls made on ax so far
    lastcall,  \* arguments of the latest adjust_spines call
    kept,      \* history: intersection of the keep-sets of all calls so far
    before,    \* history: the panel as it was before the latest call
    repeated,  \* history: the latest call repeated the arguments of the one before
    dl,        \* draggable_legend: the call and the annotations it created
    apl,       \* auto_place_legend: the call and the texts it created
    hb,        \* horiz_bar: the call and the figure it built
    sp         \* stacked_plots: the call and the figure it built

vars == <<ax, ncalls, lastcall, kept, before, repeated, dl, apl, hb, sp>>

(***************************** bounds ***************************************)
MaxCalls == 3        \* adjust_spines calls on one panel
MaxLines == 5        \* plotted lines of the panel given to draggable_legend
MaxAutoLines == 2    \* plotted lines of the panel given to auto_place_legend
MaxPts == 11         \* sample points of one line
RelBits == 2         \* rel_xloc values are multiples of 1 / 2^RelBits in [0,1]
MaxBars == 3         \* entries given to horiz_bar
TimeBits == 2        \* horiz_bar's values are multiples of 1 / 2^TimeBits
MaxNd == 2           \* digits after the decimal point, horiz_bar's nd
MaxKeys == 3         \* keys of a stacked_plots mapping
MaxMaps == 2         \* mappings given to stacked_plots
MaxCushion == 2      \* cushion values are multiples of 1/10 up to this

(***************************** rationals ************************************)
Rat(n, d) == <<n, d>>
RatEq(a, b) == a[1] * b[2] = b[1] * a[2]
RatLe(a, b) == a[1] * b[2] <= b[1] * a[2]
RatSub(a, b) == <<a[1] * b[2] - b[1] * a[2], a[2] * b[2]>>

Idle == [called |-> FALSE]

(***************************************************************************)
(* adjust_spines                                                           *)
(***************************************************************************)
\* ax.spines is an ordered mapping with these keys
SpineNames == {"left", "right", "bottom", "top"}

\* spine.set_position(('outward', 12))
OutwardPts == 12

\* A spine as the library creates it: drawn, at its default position, with
\* smart bounds off.
FreshSpine == [color |-> "k", position |-> 0, smart_bounds |-> FALSE]

\* An axis as the library creates it: automatic tick locations.
FreshAxis == [locator |-> "auto", locs |-> <<>>, ticks_position |-> "default"]

\* A panel as plt.subplots / plt.gca creates it.
FreshPanel ==
    [spines |-> [loc \in SpineNames |-> FreshSpine],
     xaxis |-> FreshAxis, yaxis |-> FreshAxis,
     ylim |-> [auto |-> TRUE, lo |-> Rat(0, 1), hi |-> Rat(1, 1)],
     ylabel |-> "", xlabel |-> "",
     lines |-> <<>>, scatters |-> <<>>]

\* axis.set_ticks(locs): a fixed locator with exactly these locations
set_ticks(axis, locs) == [axis EXCEPT !.locator = "fixed", !.locs = locs]

\* axis.set_ticks_position(side)
set_ticks_position(axis, side) == [axis EXCEPT !.ticks_position = side]

\* The body of the loop over ax.spines.items(): a mutant that adds the offset
\* to the position the spine already has.
SpineAfterAccumulating(loc, spine, spines, smart_bounds, outward) ==
    IF loc \in spines
    THEN [spine EXCEPT
            !.position = IF outward THEN @ + OutwardPts ELSE @,
            !.smart_bounds = smart_bounds]
    ELSE [spine EXCEPT !.color = "none"]

\* A mutant that draws a kept spine again.
SpineAfterShowing(loc, spine, spines, smart_bounds, outward) ==
    IF loc \in spines
    THEN [spine EXCEPT
            !.color = "k",
            !.position = IF outward THEN OutwardPts ELSE @,
            !.smart_bounds = smart_bounds]
    ELSE [spine EXCEPT !.color = "none"]

\* The body of the loop over ax.spines.items()
SpineAfter(loc, spine, spines, smart_bounds, outward) ==
    IF loc \in spines
    THEN [spine EXCEPT
            !.position = IF outward THEN OutwardPts ELSE @,
            !.smart_bounds = smart_bounds]
    ELSE [spine EXCEPT !.color = "none"]

\* A mutant that tests 'bottom' for the y-axis.
YAxisAfterBottom(axis, spines) ==
    IF "bottom" \in spines
    THEN set_ticks_position(axis, "left")
    ELSE set_ticks(axis, <<>>)

\* "turn off ticks where there is no spine", y-axis
YAxisAfter(axis, spines) ==
    IF "left" \in spines
    THEN set_ticks_position(axis, "left")
    ELSE set_ticks(axis, <<>>)

\* "turn off ticks where there is no spine", x-axis
XAxisAfter(axis, spines) ==
    IF "bottom" \in spines
    THEN set_ticks_position(axis, "bottom")
    ELSE set_ticks(axis, <<>>)

\* adjust_spines(ax, spines, smart_bounds, outward): the panel afterwards
adjust_spines(panel, spines, smart_bounds, outward) ==
    [panel EXCEPT
        !.spines = [loc \in SpineNames |->
                      SpineAfter(loc, panel.spines[loc], spines, smart_bounds, outward)],
        !.yaxis = YAxisAfter(panel.yaxis, spines),
        !.xaxis = XAxisAfter(panel.xaxis, spines)]

\* what of a panel is visible: drawn spines, and axes with tick marks
Visible(panel) == {loc \in SpineNames : panel.spines[loc].color # "none"}
TicksRemoved(axis) == axis.locator = "fixed" /\ axis.locs = <<>>

\* One call of adjust_spines on the panel.
AdjustSpines ==
    /\ ncalls < MaxCalls
    /\ \E spines \in SUBSET SpineNames, smart_bounds \in BOOLEAN, outward \in BOOLEAN :
          /\ ax' = adjust_spines(ax, spines, smart_bounds, outward)
          /\ lastcall' = [spines |-> spines, smart_bounds |-> smart_bounds,
                          outward |-> outward]
          /\ kept' = kept \cap spines
          /\ repeated' = (ncalls >= 1 /\ lastcall.spines = spines
                          /\ lastcall.smart_bounds = smart_bounds
                          /\ lastcall.outward = outward)
    /\ before' = ax
    /\ ncalls' = ncalls + 1
    /\ UNCHANGED <<dl, apl, hb, sp>>

\* The caller's script has created a panel and called no helper yet.
Init ==
    /\ ax = FreshPanel
    /\ ncalls = 0
    /\ lastcall = [spines |-> {"left", "bottom"}, smart_bounds |-> TRUE,
                   outward |-> FALSE]
    /\ kept = SpineNames
    /\ before = FreshPanel
    /\ repeated = FALSE
    /\ dl = Idle /\ apl = Idle /\ hb = Idle /\ sp = Idle

SpecSpines == Init /\ [][AdjustSpines]_vars

\* C1: on a fresh panel, for every keep-set K within {left, bottom}, after
\* adjust_spines the visible spines are exactly K, the y-axis ticks are
\* removed iff 'left' is not in K and the x-axis ticks iff 'bottom' is not.
C1_KeepSetDecidesSpinesAndTicks ==
    (ncalls = 1 /\ lastcall.spines \subseteq {"left", "bottom"}) =>
        /\ Visible(ax) = lastcall.spines
        /\ TicksRemoved(ax.yaxis) <=> "left" \notin lastcall.spines
        /\ TicksRemoved(ax.xaxis) <=> "bottom" \notin lastcall.spines

C1_Witness ==
    /\ ncalls = 1 /\ lastcall.spines = {"left"}
    /\ Visible(ax) = {"left"}
    /\ TicksRemoved(ax.xaxis) /\ ~TicksRemoved(ax.yaxis)

\* C2: adjust_spines is idempotent: a call that repeats the arguments of the
\* call before it leaves the panel (spine visibility, position and bounds
\* mode, tick presence and tick side) as that call left it.
C2_Idempotent == repeated => ax = before

C2_Witness ==
    /\ repeated /\ ncalls = 3
    /\ lastcall.outward /\ lastcall.spines = {"bottom"}
    /\ ax.spines["bottom"].position = OutwardPts
    /\ Visible(ax) = {}

\* C10: hiding is never undone: after any sequence of calls the visible
\* spines are the intersection of the keep-sets so far, the ticks of the
\* y-axis (x-axis) are present iff 'left' ('bottom') was in every keep-set,
\* and the set of visible spines did not grow in the latest call.
C10_HidingIsNeverUndone ==
    ncalls >= 1 =>
        /\ Visible(ax) = kept
        /\ ~TicksRemoved(ax.yaxis) <=> "left" \in kept
        /\ ~TicksRemoved(ax.xaxis) <=> "bottom" \in kept
        /\ Visible(ax) \subseteq Visible(before)

C10_Witness ==
    /\ ncalls = 2 /\ lastcall.spines = {"left", "bottom"}
    /\ Visible(ax) = {"bottom"} /\ TicksRemoved(ax.yaxis)


(***************************************************************************)
(* draggable_legend                                                        *)
(***************************************************************************)
Colors == {"C0", "C1", "C2"}

\* line.get_label() of the idx-th line (1-based) the caller plotted
LineLabel(idx) == "line" \o ToString(idx - 1)

\* np.ceil(np.sqrt(nlines))
CeilSqrt(nlines) ==
    CHOOSE g \in 0..nlines : g * g >= nlines /\ (g = 0 \/ (g - 1) * (g - 1) < nlines)

\* np.linspace(.1, .9, n)[j], j 0-based: .1 + j * (.8 / (n - 1)); a single
\* sample is the start value
Linspace(n, j) == IF n = 1 THEN Rat(1, 10) ELSE Rat((n - 1) + 8 * j, 10 * (n - 1))

\* A mutant that flattens the meshgrid column by column.
GridCoordsColumnMajor(n, idx) == <<Linspace(n, idx \div n), Linspace(n, idx % n)>>

\* xs, ys = np.meshgrid(lins, lins), both reshaped to one dimension:
\* (xs[idx], ys[idx]) for a 0-based idx
GridCoords(n, idx) == <<Linspace(n, idx % n), Linspace(n, idx \div n)>>

\* axis.annotate(label, xy=coords, ...) followed by draggable(): the text
\* position is copied out of coords when the annotation is created
Annotate(n, idx, color_on, color) ==
    [text |-> LineLabel(idx + 1),
     xyann |-> GridCoords(n, idx),
     xycoords |-> "axes fraction",
     color |-> IF color_on THEN color ELSE "k",
     draggable |-> TRUE]

\* draggable_legend(axis, color_on) on a panel whose lines have these colors
draggable_legend(lines, color_on) ==
    LET nlines == Len(lines)
        n == CeilSqrt(nlines)
    IN [n |-> n,
        legend |-> [i \in 1..nlines |-> Annotate(n, i - 1, color_on, lines[i])],
        \* every annotation's xy is the one coords array, left at its last value
        coords |-> IF nlines = 0 THEN <<Rat(0, 1), Rat(0, 1)>>
                   ELSE GridCoords(n, nlines - 1)]

RECURSIVE SeqsUpTo(_, _)
\* all sequences over S of length at most n
SeqsUpTo(S, n) ==
    IF n = 0 THEN {<<>>}
    ELSE LET shorter == SeqsUpTo(S, n - 1)
         IN shorter \cup {Append(s, x) : s \in {t \in shorter : Len(t) = n - 1}, x \in S}

DraggableLegend ==
    /\ ~dl.called
    /\ \E lines \in SeqsUpTo(Colors, MaxLines), color_on \in BOOLEAN :
          dl' = [called |-> TRUE, lines |-> lines, color_on |-> color_on,
                 out |-> draggable_legend(lines, color_on)]
    /\ UNCHANGED <<ax, ncalls, lastcall, kept, before, repeated, apl, hb, sp>>

SpecDraggable == Init /\ [][DraggableLegend]_vars

\* C3: draggable_legend on n >= 1 lines creates exactly n draggable labels;
\* with g = ceil(sqrt(n)) and g evenly spaced grid values from 0.1 to 0.9,
\* the label of line i (0-based) is at (grid[i mod g], grid[i div g]), the
\* index is inside the g-by-g grid and no two labels share a position.
C3_RowMajorGrid ==
    (dl.called /\ Len(dl.lines) >= 1) =>
        LET n == Len(dl.lines)
            g == dl.out.n
            legend == dl.out.legend
            grid(j) == Linspace(g, j)
        IN /\ Len(legend) = n
           /\ g * g >= n /\ (g - 1) * (g - 1) < n
           /\ RatEq(grid(0), Rat(1, 10))
           /\ g >= 2 => RatEq(grid(g - 1), Rat(9, 10))
           /\ \A j \in 1..(g - 2) :
                 RatEq(RatSub(grid(j + 1), grid(j)), RatSub(grid(j), grid(j - 1)))
           /\ \A i \in 0..(n - 1) :
                 /\ i % g < g /\ i \div g < g
                 /\ legend[i + 1].draggable
                 /\ legend[i + 1].xycoords = "axes fraction"
                 /\ RatEq(legend[i + 1].xyann[1], grid(i % g))
                 /\ RatEq(legend[i + 1].xyann[2], grid(i \div g))
           /\ \A i, k \in 1..n :
                 i # k => ~(/\ RatEq(legend[i].xyann[1], legend[k].xyann[1])
                            /\ RatEq(legend[i].xyann[2], legend[k].xyann[2]))
           /\ n = 4 =>
                 /\ legend[1].xyann = <<Rat(1, 10), Rat(1, 10)>>
                 /\ legend[2].xyann = <<Rat(9, 10), Rat(1, 10)>>
                 /\ legend[3].xyann = <<Rat(1, 10), Rat(9, 10)>>
                 /\ legend[4].xyann = <<Rat(9, 10), Rat(9, 10)>>

C3_Witness ==
    /\ dl.called /\ Len(dl.lines) = 5 /\ dl.out.n = 3
    /\ Len(dl.out.legend) = 5
    /\ RatEq(dl.out.legend[4].xyann[1], Rat(1, 10))
    /\ RatEq(dl.out.legend[4].xyann[2], Rat(1, 2))
    /\ RatEq(dl.out.legend[5].xyann[1], Rat(1, 2))

(***************************************************************************)
(* auto_place_legend                                                       *)
(***************************************************************************)
\* rel_xloc values: num / RelDen
RelDen == 2 ^ RelBits

\* line.get_xydata()[j] of the i-th line (1-based), j 0-based: the data the
\* caller plotted
XYData(i, j) == <<j, 100 * i + j>>

\* line.get_color() of the i-th line (1-based)
LineColor(i) == "C" \o ToString(i - 1)

\* rel_xloc as the caller passes it: None, a float, an int, or a list with
\* entries num / RelDen
RelNone == [kind |-> "None", num |-> 0, list |-> <<>>]
RelFloat(num) == [kind |-> "float", num |-> num, list |-> <<>>]
RelInt(v) == [kind |-> "int", num |-> v * RelDen, list |-> <<>>]
RelList(l) == [kind |-> "list", num |-> 0, list |-> l]

\* "if type(rel_xloc) is float: rel_xloc = nLines * [rel_xloc]"
Broadcast(rel_xloc, nLines) ==
    IF rel_xloc.kind = "float"
    THEN RelList([i \in 1..nLines |-> rel_xloc.num])
    ELSE rel_xloc

\* int(r * N) for r = num / RelDen >= 0
IntOfProduct(num, N) == (num * N) \div RelDen

\* One pass of the loop body for line i with N sample points; rnd is what
\* np.random.randint returns when it is asked. Gives the error raised, or
\* the index chosen.
PickIndex(rel_xloc, i, N, rnd) ==
    IF rel_xloc.kind = "None"
    THEN IF N = 0 THEN [error |-> "ValueError", idx |-> 0]
         ELSE [error |-> "none", idx |-> rnd]
    ELSE IF rel_xloc.kind # "list"
    THEN [error |-> "TypeError", idx |-> 0]      \* a scalar is not subscriptable
    ELSE IF i > Len(rel_xloc.list)
    THEN [error |-> "IndexError", idx |-> 0]     \* list shorter than the lines
    ELSE [error |-> "none", idx |-> IntOfProduct(rel_xloc.list[i], N)]

\* ax.text(coords[idx,0], coords[idx,1], label, ..., color=color)
TextAt(i, idx, color_on) ==
    [anchor |-> XYData(i, idx), idx |-> idx, label |-> LineLabel(i),
     color |-> IF color_on THEN LineColor(i) ELSE "k"]

RECURSIVE AutoLoop(_, _, _, _, _, _)
\* the loop over ax.lines from line i on, texts being those created so far
AutoLoop(lines, rel_xloc, color_on, rnd, i, texts) ==
    IF i > Len(lines) THEN [error |-> "none", texts |-> texts]
    ELSE LET N == lines[i]
             pick == PickIndex(rel_xloc, i, N, rnd[i])
         IN IF pick.error # "none" THEN [error |-> pick.error, texts |-> texts]
            ELSE IF pick.idx >= N          \* coords[idx, 0] out of bounds
            THEN [error |-> "IndexError", texts |-> texts]
            ELSE AutoLoop(lines, rel_xloc, color_on, rnd, i + 1,
                          Append(texts, TextAt(i, pick.idx, color_on)))

\* auto_place_legend(ax, rel_xloc, color_on) on a panel whose i-th line has
\* lines[i] sample points
auto_place_legend(lines, rel_xloc, color_on, rnd) ==
    LET nLines == Len(lines)
        loop == AutoLoop(lines, Broadcast(rel_xloc, nLines), color_on, rnd, 1, <<>>)
    IN [error |-> loop.error,
        texts |-> loop.texts,
        \* adjust_text(texts, ax=ax, **kwargs) runs once after the loop
        adjust_text_calls |-> IF loop.error = "none" THEN 1 ELSE 0,
        adjusted |-> IF loop.error = "none" THEN Len(loop.texts) ELSE 0]

RelNums == 0..RelDen

RelChoices ==
    {RelNone} \cup {RelFloat(k) : k \in RelNums} \cup {RelInt(0), RelInt(1)}
    \cup {RelList(l) : l \in SeqsUpTo(RelNums, MaxAutoLines) \ {<<>>}}

\* the draws np.random.randint can return for these lines
RandomDraws(lines, rel_xloc) ==
    IF rel_xloc.kind = "None"
    THEN {r \in [1..Len(lines) -> 0..(MaxPts - 1)] :
            \A i \in 1..Len(lines) : r[i] < lines[i] \/ (lines[i] = 0 /\ r[i] = 0)}
    ELSE {[i \in 1..Len(lines) |-> 0]}

AutoPlaceLegend ==
    /\ ~apl.called
    /\ \E lines \in SeqsUpTo(0..MaxPts, MaxAutoLines) \ {<<>>},
          rel_xloc \in RelChoices, color_on \in BOOLEAN :
          \E rnd \in RandomDraws(lines, rel_xloc) :
             apl' = [called |-> TRUE, lines |-> lines, rel_xloc |-> rel_xloc,
                     color_on |-> color_on,
                     out |-> auto_place_legend(lines, rel_xloc, color_on, rnd)]
    /\ UNCHANGED <<ax, ncalls, lastcall, kept, before, repeated, dl, hb, sp>>

SpecAutoPlace == Init /\ [][AutoPlaceLegend]_vars

\* the relative position the caller gave for line i, as num / RelDen
RelOf(rel_xloc, i) == IF rel_xloc.kind = "list" THEN rel_xloc.list[i] ELSE rel_xloc.num

\* the call is one the documentation allows: a scalar in [0,1] or a list with
\* one entry in [0,1] per line, every line with at least one sample point
InDomain(call) ==
    /\ call.called
    /\ call.rel_xloc.kind # "None"
    /\ call.rel_xloc.kind = "list" => Len(call.rel_xloc.list) = Len(call.lines)
    /\ \A i \in 1..Len(call.lines) : call.lines[i] >= 1

\* every relative position of the call is a float below 1, as a scalar or
\* in a list
BelowOne(call) ==
    /\ call.rel_xloc.kind \in {"float", "list"}
    /\ \A i \in 1..Len(call.lines) : RelOf(call.rel_xloc, i) < RelDen

\* Every line's label is anchored at the sample point with index
\* floor(r * N), one label per line, and the solver runs once after them.
AnchoredAtFloor(pre) ==
    pre =>
        /\ Len(apl.out.texts) = Len(apl.lines)
        /\ \A i \in 1..Len(apl.lines) :
              LET N == apl.lines[i]
                  r == RelOf(apl.rel_xloc, i)
                  floor == CHOOSE f \in 0..N : f * RelDen <= r * N /\ r * N < (f + 1) * RelDen
              IN apl.out.texts[i].anchor = XYData(i, floor)
        /\ (\E i \in 1..Len(apl.lines) :
              apl.lines[i] = 11 /\ 2 * RelOf(apl.rel_xloc, i) = RelDen)
           => \E i \in 1..Len(apl.lines) : apl.out.texts[i].idx = 5
        /\ apl.out.adjust_text_calls = 1
        /\ apl.out.adjusted = Len(apl.lines)

\* C4: with a relative x-position given, the label of every line with N
\* sample points and relative position r is anchored at the sample point with
\* index floor(r * N), one label is created per line, and the overlap solver
\* is invoked once, after all labels are created.
C4_AnchorAtFloorIndex == AnchoredAtFloor(InDomain(apl))

\* The same statement for the calls whose positions are floats below 1.
C4_HoldsBelowOne == AnchoredAtFloor(InDomain(apl) /\ BelowOne(apl))

\* No error is raised and every line gets a label at one of its own points.
Accepted(pre) ==
    pre =>
        /\ apl.out.error = "none"
        /\ Len(apl.out.texts) = Len(apl.lines)
        /\ \A i \in 1..Len(apl.lines) :
              /\ apl.out.texts[i].idx \in 0..(apl.lines[i] - 1)
              /\ apl.out.texts[i].anchor = XYData(i, apl.out.texts[i].idx)

\* C9: every relative x-position of the documented domain is accepted: a
\* scalar in [0,1], endpoints included, integer or float, or a list with one
\* entry in [0,1] per line; every line gets a label anchored at one of its
\* own sample points, and no error is raised.
C9_DocumentedDomainAccepted == Accepted(InDomain(apl))

\* The same statement for the calls whose positions are floats below 1.
C9_HoldsBelowOne == Accepted(InDomain(apl) /\ BelowOne(apl))

(***************************************************************************)
(* horiz_bar                                                               *)
(***************************************************************************)
\* Values of 'times' are exact binary fractions: t = tq / TimeDen.
TimeDen == 2 ^ TimeBits

\* the values and labels a caller passes
TimesQ == {1, 2, 3, 5, 6, 10, 40, 80}
Labels == {"A", "BB"}

RECURSIVE Digits(_, _)
\* the k low decimal digits of v, leading zeros kept
Digits(v, k) == IF k = 0 THEN "" ELSE Digits(v \div 10, k - 1) \o ToString(v % 10)

\* num / den rounded to the nearest integer, ties to the even one: how the
\* 'f' format rounds a value it holds exactly
RoundHalfEven(num, den) ==
    LET q == num \div den
        r == num % den
    IN IF 2 * r < den THEN q
       ELSE IF 2 * r > den THEN q + 1
       ELSE IF q % 2 = 0 THEN q ELSE q + 1

\* A mutant that cuts the digits off instead of rounding.
FormatFixedTruncating(tq, nd) ==
    LET R == (tq * 10 ^ nd) \div TimeDen
    IN ToString(R \div 10 ^ nd)
       \o (IF nd = 0 THEN "" ELSE "." \o Digits(R % 10 ^ nd, nd))

\* '{number:.{digits}f}'.format(number=t, digits=nd)
FormatFixed(tq, nd) ==
    LET R == RoundHalfEven(tq * 10 ^ nd, TimeDen)
    IN ToString(R \div 10 ^ nd)
       \o (IF nd = 0 THEN "" ELSE "." \o Digits(R % 10 ^ nd, nd))

RECURSIVE MaxOf(_)
\* max(times)
MaxOf(s) ==
    IF Len(s) = 1 THEN s[1]
    ELSE LET m == MaxOf(Tail(s)) IN IF s[1] >= m THEN s[1] ELSE m

RECURSIVE MaxLen(_)
\* len(max(labels, key=len))
MaxLen(s) ==
    IF Len(s) = 1 THEN Len(s[1])
    ELSE LET m == MaxLen(Tail(s)) IN IF Len(s[1]) >= m THEN Len(s[1]) ELSE m

\* left_lim = -ts*l_max*.038*t_max
LeftLim(ts, l_max, t_max) == Rat(-(ts * l_max * 38 * t_max), 1000 * TimeDen)

\* right_lim = t_max*1.11
RightLim(t_max) == Rat(111 * t_max, 100 * TimeDen)

\* ax.set_xlim(0, t_max*1.05)
BarXlim(t_max) == <<Rat(0, 1), Rat(105 * t_max, 100 * TimeDen)>>

\* plt.subplots(num, 1) squeezes its result: one panel comes back as the
\* panel itself, several as an array of panels
SubplotsIsArray(num) == num > 1

\* One pass of the loop that draws the bar of entry j (0-based).
BarPanel(j, l, t, num, t_max, l_max, header, ts, nd, color) ==
    [axhline |-> Rat(1, 1),
     marker |-> [x |-> Rat(t, TimeDen), y |-> Rat(1, 1), color |-> color],
     ylim |-> <<Rat(99, 100), Rat(101, 100)>>,
     xlim |-> BarXlim(t_max),
     ticks_bottom |-> (j = num),
     spines_visible |-> {},
     label |-> [x |-> LeftLim(ts, l_max, t_max), y |-> Rat(1, 1), text |-> l],
     value |-> [x |-> Rat(111 * 115 * t_max, 10000 * TimeDen), y |-> Rat(1, 1),
                text |-> FormatFixed(t, nd)],
     \* "Create border graphics if this is the top bar line"
     header |-> IF j = 0
                THEN <<[x |-> Rat(-(36 * Len(header[1]) * t_max
                                    + 38 * ts * l_max * t_max), 2000 * TimeDen),
                        y |-> Rat(102, 100), text |-> header[1]],
                       [x |-> Rat(t_max * (1110 + 90 + 20 * nd - 18 * Len(header[2])),
                                  1000 * TimeDen),
                        y |-> Rat(102, 100), text |-> header[2]]>>
                ELSE <<>>,
     rule |-> IF j = 0
              THEN <<[x1 |-> LeftLim(ts, l_max, t_max),
                      x2 |-> Rat(t_max * (1110 + 150 + 30 * nd), 1000 * TimeDen),
                      y |-> Rat(1014, 1000)]>>
              ELSE <<>>]

\* horiz_bar(labels, times, header, ts, nd, size, color). The digit count
\* t_max_digits and d are computed by the code and never used; size only
\* sets the figure's size in inches.
horiz_bar(labels, times, header, ts, nd, color) ==
    LET num == Len(times)
        t_max == MaxOf(times)
        l_max == MaxLen(labels)
        \* zip(labels, times, axarr) stops at the shortest
        rows == IF Len(labels) < num THEN Len(labels) ELSE num
    IN IF ~SubplotsIsArray(num)
       THEN \* zip() over a single panel: it is not iterable
            [error |-> "TypeError", created |-> num, panels |-> <<>>, saved |-> ""]
       ELSE [error |-> "none", created |-> num,
             panels |-> [k \in 1..rows |->
                           BarPanel(k - 1, labels[k], times[k], num, t_max, l_max,
                                    header, ts, nd, color)],
             saved |-> "bar_chart.pdf"]

HorizBar ==
    /\ ~hb.called
    /\ \E n \in 1..MaxBars, nd \in 0..MaxNd :
          \E labels \in [1..n -> Labels], times \in [1..n -> TimesQ] :
             hb' = [called |-> TRUE, labels |-> labels, times |-> times, nd |-> nd,
                    out |-> horiz_bar(labels, times, <<"L", "R">>, 1, nd, "#FFCC00")]
    /\ UNCHANGED <<ax, ncalls, lastcall, kept, before, repeated, dl, apl, sp>>

SpecHorizBar == Init /\ [][HorizBar]_vars

\* text is value tq / TimeDen written with exactly nd digits after the point:
\* digits "int.frac" whose value is within half a unit of the last digit
IsFixed(text, tq, nd) ==
    \E ip \in 0..(tq \div TimeDen + 1), fp \in 0..(10 ^ nd - 1) :
        /\ text = ToString(ip) \o (IF nd = 0 THEN "" ELSE "." \o Digits(fp, nd))
        /\ 2 * TimeDen * (ip * 10 ^ nd + fp) <= 2 * tq * 10 ^ nd + TimeDen
        /\ 2 * TimeDen * (ip * 10 ^ nd + fp) >= 2 * tq * 10 ^ nd - TimeDen

\* One panel per entry in input order, with its marker, its value text and
\* the common x-range, for the calls with at least nmin entries.
OnePanelPerEntry(nmin) ==
    (hb.called /\ Len(hb.times) >= nmin) =>
        LET n == Len(hb.times)
            panels == hb.out.panels
        IN /\ hb.out.error = "none"
           /\ hb.out.created = n /\ Len(panels) = n
           /\ \A k \in 1..n :
                 /\ RatEq(panels[k].marker.x, Rat(hb.times[k], TimeDen))
                 /\ RatEq(panels[k].marker.y, Rat(1, 1))
                 /\ panels[k].label.text = hb.labels[k]
                 /\ IsFixed(panels[k].value.text, hb.times[k], hb.nd)
                 /\ (hb.times[k] = 20 * TimeDen /\ hb.nd = 1)
                       => panels[k].value.text = "20.0"
                 /\ RatEq(panels[k].xlim[1], Rat(0, 1))
                 /\ \E m \in 1..n :
                       /\ \A i \in 1..n : hb.times[i] <= hb.times[m]
                       /\ RatEq(panels[k].xlim[2], Rat(105 * hb.times[m], 100 * TimeDen))
                 /\ RatLe(panels[k].xlim[1], panels[k].marker.x)
                 /\ RatLe(panels[k].marker.x, panels[k].xlim[2])

\* C5: horiz_bar on n >= 1 parallel labels and positive values creates n
\* panels in input order; panel k draws its marker at (times[k], 1), writes
\* times[k] with exactly nd digits after the decimal point, and has the
\* x-range [0, 1.05 * max(times)], which holds every marker.
C5_OnePanelPerEntry == OnePanelPerEntry(1)

\* The same statement for the calls with at least two entries.
C5_HoldsFromTwoEntries == OnePanelPerEntry(2)

(***************************************************************************)
(* stacked_plots                                                           *)
(***************************************************************************)
\* cushion values are c / CushionDen
CushionDen == 10

\* the i-th key of every mapping (the caller keeps the key order the same)
KeyName(i) == "y" \o ToString(i)

\* A value of a mapping: a raw data sequence, or a descriptor with 'data' and
\* optionally 'limits' and 'ticks'. data names the sequence: mapping j, key i.
Raw(j, i) ==
    [isdict |-> FALSE, has_limits |-> FALSE, limits |-> <<>>,
     has_ticks |-> FALSE, ticks |-> <<>>, data |-> <<j, i>>]
Descriptor(j, i, has_limits, limits, has_ticks, ticks) ==
    [isdict |-> TRUE, has_limits |-> has_limits, limits |-> limits,
     has_ticks |-> has_ticks, ticks |-> ticks, data |-> <<j, i>>]

LimitChoices == {<<0, 5>>}
TickChoices == {<<0, 10>>, <<2, 4, 8>>, <<-5, 5>>, <<>>}

\* the values the first mapping may hold under key i
FirstValues(i) ==
    {Raw(1, i), Descriptor(1, i, FALSE, <<>>, FALSE, <<>>)}
    \cup {Descriptor(1, i, TRUE, l, FALSE, <<>>) : l \in LimitChoices}
    \cup {Descriptor(1, i, FALSE, <<>>, TRUE, t) : t \in TickChoices}
    \cup {Descriptor(1, i, TRUE, l, TRUE, <<0, 10>>) : l \in LimitChoices}

\* the values a later mapping j may hold under key i
LaterValues(j, i) == {Raw(j, i), Descriptor(j, i, FALSE, <<>>, FALSE, <<>>)}

\* ax.set_ylim(limits)
set_ylim(panel, lo, hi) == [panel EXCEPT !.ylim = [auto |-> FALSE, lo |-> lo, hi |-> hi]]

\* A mutant that takes the cushion as an absolute distance.
TickLimitsAbsolute(ticks, cushion) ==
    <<Rat(CushionDen * ticks[1] - cushion, CushionDen),
      Rat(CushionDen * ticks[Len(ticks)] + cushion, CushionDen)>>

\* limits = [low_tick - cushion * height, high_tick + cushion * height]
TickLimits(ticks, cushion) ==
    LET low_tick == ticks[1]
        high_tick == ticks[Len(ticks)]
        height == high_tick - low_tick
    IN <<Rat(CushionDen * low_tick - cushion * height, CushionDen),
         Rat(CushionDen * high_tick + cushion * height, CushionDen)>>

\* One pass of the first loop: the y-range and the y-label of panel i.
\* ydata['ticks'][0] of an empty list raises after set_yticks was applied.
ConfigurePanel(panel, key, ydata, cushion) ==
    LET ranged ==
          IF ~ydata.isdict THEN [error |-> "none", panel |-> panel]
          ELSE IF ydata.has_limits
          THEN [error |-> "none",
                panel |-> set_ylim(panel, Rat(ydata.limits[1], 1), Rat(ydata.limits[2], 1))]
          ELSE IF ydata.has_ticks
          THEN LET ticked == [panel EXCEPT !.yaxis = set_ticks(@, ydata.ticks)]
               IN IF ydata.ticks = <<>>
                  THEN [error |-> "IndexError", panel |-> ticked]
                  ELSE [error |-> "none",
                        panel |-> set_ylim(ticked, TickLimits(ydata.ticks, cushion)[1],
                                           TickLimits(ydata.ticks, cushion)[2])]
          ELSE [error |-> "none", panel |-> panel]
    IN IF ranged.error # "none" THEN ranged
       ELSE [error |-> "none", panel |-> [ranged.panel EXCEPT !.ylabel = key]]

RECURSIVE ConfigureLoop(_, _, _, _)
\* the first loop from panel i on
ConfigureLoop(axarr, data_dict, cushion, i) ==
    IF i > Len(data_dict) THEN [error |-> "none", axarr |-> axarr]
    ELSE LET done == ConfigurePanel(axarr[i], KeyName(i), data_dict[i], cushion)
             next == [axarr EXCEPT ![i] = done.panel]
         IN IF done.error # "none" THEN [error |-> done.error, axarr |-> next]
            ELSE ConfigureLoop(next, data_dict, cushion, i + 1)

\* axarr[i].plot(xdata, ydata, ...) and axarr[i].scatter(xdata, ydata, ...)
PlotOn(panel, ydata) ==
    [panel EXCEPT !.lines = Append(@, [x |-> "xdata", y |-> ydata.data]),
                  !.scatters = Append(@, [x |-> "xdata", y |-> ydata.data])]

RECURSIVE PlotLoop(_, _, _)
\* the second loop from mapping j on: one line and one scatter per panel
PlotLoop(axarr, data_dict_list, j) ==
    IF j > Len(data_dict_list) THEN axarr
    ELSE PlotLoop([i \in 1..Len(axarr) |-> PlotOn(axarr[i], data_dict_list[j][i])],
                  data_dict_list, j + 1)

\* A mutant that takes the x-ticks off every panel.
FinishPanelAllBare(panel, i, n, xticks) ==
    [adjust_spines(panel, {"left", "bottom"}, TRUE, FALSE)
       EXCEPT !.xaxis = set_ticks(@, <<>>)]

\* One pass of the third loop, i 0-based, xticks <<>> standing for None
FinishPanel(panel, i, n, xticks) ==
    LET spined == adjust_spines(panel, {"left", "bottom"}, TRUE, FALSE)
    IN IF i < n - 1
       THEN [spined EXCEPT !.xaxis = set_ticks(@, <<>>)]
       ELSE LET sided == [spined EXCEPT !.xaxis = set_ticks_position(@, "bottom")]
            IN IF xticks # <<>>
               THEN [sided EXCEPT !.xaxis = set_ticks(@, xticks)]
               ELSE sided

\* "If it's a dictionary, make it into a list": the argument is a mapping
\* (type "dict", the mapping being arg.maps[1]) or a list of mappings (type
\* "list", the list being arg.maps)
AsList(arg) == IF arg.type = "dict" THEN <<arg.maps[1]>> ELSE arg.maps

\* stacked_plots(xlabel, xdata, data_dict_list, ..., filename, xticks, cushion)
stacked_plots(xlabel, arg, filename, xticks, cushion) ==
    LET data_dict_list == AsList(arg)
        data_dict == data_dict_list[1]
        n == Len(data_dict)
        fresh == [i \in 1..n |-> FreshPanel]
    IN IF ~SubplotsIsArray(n)
       THEN \* axarr[i] on a single panel: it cannot be indexed
            [error |-> "TypeError", panels |-> fresh, aligned |-> FALSE,
             saved |-> "", returned |-> FALSE]
       ELSE LET configured == ConfigureLoop(fresh, data_dict, cushion, 1)
            IN IF configured.error # "none"
               THEN [error |-> configured.error, panels |-> configured.axarr,
                     aligned |-> FALSE, saved |-> "", returned |-> FALSE]
               ELSE LET plotted == PlotLoop(configured.axarr, data_dict_list, 1)
                        finished == [i \in 1..n |->
                                       FinishPanel(plotted[i], i - 1, n, xticks)]
                    IN [error |-> "none",
                        panels |-> [finished EXCEPT ![n].xlabel = xlabel],
                        aligned |-> TRUE, saved |-> filename, returned |-> TRUE]

XtickChoices == {<<>>, <<0, 5>>}

\* the lists of m mappings over k keys a caller may pass
DataDictLists(k, m) ==
    {[j \in 1..m |-> IF j = 1 THEN first ELSE [i \in 1..k |-> later[<<j, i>>]]] :
        first \in {f \in [1..k -> UNION {FirstValues(i) : i \in 1..k}] :
                     \A i \in 1..k : f[i] \in FirstValues(i)},
        later \in {l \in [(2..m) \X (1..k) -> UNION {LaterValues(j, i) : j \in 2..m, i \in 1..k}] :
                     \A j \in 2..m, i \in 1..k : l[<<j, i>>] \in LaterValues(j, i)}}

StackedPlots ==
    /\ ~sp.called
    /\ \E k \in 1..MaxKeys, m \in 1..MaxMaps, cushion \in 0..MaxCushion,
          xticks \in XtickChoices :
          \E data_dict_list \in DataDictLists(k, m) :
             \E arg \in {[type |-> t, maps |-> data_dict_list] :
                           t \in IF m = 1 THEN {"dict", "list"} ELSE {"list"}} :
                sp' = [called |-> TRUE, arg |-> arg,
                       xticks |-> xticks, cushion |-> cushion,
                       out |-> stacked_plots("x", arg, "stacks.png", xticks, cushion)]
    /\ UNCHANGED <<ax, ncalls, lastcall, kept, before, repeated, dl, apl, hb>>

SpecStacked == Init /\ [][StackedPlots]_vars

\* the mappings of the call, and the call's being well formed: no descriptor
\* asks for ticks with an empty tick list
MapsOf(call) == AsList(call.arg)
WellFormed(call) ==
    /\ call.called
    /\ \A i \in 1..Len(MapsOf(call)[1]) :
          LET v == MapsOf(call)[1][i]
          IN ~(v.isdict /\ ~v.has_limits /\ v.has_ticks /\ v.ticks = <<>>)

\* The y-range of every panel follows the descriptor of the first mapping,
\* for the calls with at least kmin keys.
YRangeFollowsDescriptor(kmin) ==
    (WellFormed(sp) /\ Len(MapsOf(sp)[1]) >= kmin) =>
        \A i \in 1..Len(MapsOf(sp)[1]) :
            LET v == MapsOf(sp)[1][i]
                p == sp.out.panels[i]
                c == sp.cushion
            IN IF v.isdict /\ v.has_limits
               THEN /\ ~p.ylim.auto
                    /\ RatEq(p.ylim.lo, Rat(v.limits[1], 1))
                    /\ RatEq(p.ylim.hi, Rat(v.limits[2], 1))
                    /\ p.yaxis.locator = "auto"
               ELSE IF v.isdict /\ v.has_ticks
               THEN LET first == v.ticks[1]
                        last == v.ticks[Len(v.ticks)]
                    IN /\ p.yaxis.locator = "fixed" /\ p.yaxis.locs = v.ticks
                       /\ ~p.ylim.auto
                       /\ RatEq(p.ylim.lo, Rat(CushionDen * first - c * (last - first),
                                               CushionDen))
                       /\ RatEq(p.ylim.hi, Rat(CushionDen * last + c * (last - first),
                                               CushionDen))
                       /\ (v.ticks = <<0, 10>> /\ c = 1) =>
                             /\ RatEq(p.ylim.lo, Rat(-1, 1))
                             /\ RatEq(p.ylim.hi, Rat(11, 1))
               ELSE p.ylim.auto /\ p.yaxis.locator = "auto"

\* C6: per panel of the first mapping: 'limits' set the y-limits exactly and
\* keep 'ticks' unapplied; else 'ticks' set the y-ticks and the y-limits
\* [first - cushion*(last-first), last + cushion*(last-first)]; else neither
\* is set.
C6_YRangeSelection == YRangeFollowsDescriptor(1)

\* The same statement for the calls with at least two keys.
C6_HoldsFromTwoKeys == YRangeFollowsDescriptor(2)

\* k panels, labelled by the keys, each with one line and one scatter per
\* mapping in order, for the calls with at least kmin keys.
PanelsAndLines(kmin) ==
    (WellFormed(sp) /\ Len(MapsOf(sp)[1]) >= kmin) =>
        LET k == Len(MapsOf(sp)[1])
            m == Len(MapsOf(sp))
            panels == sp.out.panels
        IN /\ sp.out.error = "none"
           /\ sp.out.returned /\ sp.out.saved = "stacks.png"
           /\ Len(panels) = k
           /\ \A i \in 1..k :
                 /\ panels[i].ylabel = KeyName(i)
                 /\ Len(panels[i].lines) = m /\ Len(panels[i].scatters) = m
                 /\ \A j \in 1..m :
                       /\ panels[i].lines[j] = [x |-> "xdata", y |-> <<j, i>>]
                       /\ panels[i].scatters[j] = [x |-> "xdata", y |-> <<j, i>>]

\* C7: for k >= 1 keys and m >= 1 mappings (a single mapping counting as a
\* list of one) the call creates k panels, panel i labelled with the i-th
\* key and holding m lines and m scatter overlays, the j-th being the data of
\* mapping j under key i against the shared x-data; figure and panels are
\* returned.
C7_PanelAndLineCounts == PanelsAndLines(1)

\* The same statement for the calls with at least two keys.
C7_HoldsFromTwoKeys == PanelsAndLines(2)

\* The x-axis finishing, for the calls with at least kmin keys.
XAxisFinished(kmin) ==
    (WellFormed(sp) /\ Len(MapsOf(sp)[1]) >= kmin) =>
        LET k == Len(MapsOf(sp)[1])
            panels == sp.out.panels
        IN /\ \A i \in 1..(k - 1) :
                 TicksRemoved(panels[i].xaxis) /\ panels[i].xlabel = ""
           /\ panels[k].xaxis.ticks_position = "bottom"
           /\ IF sp.xticks # <<>>
              THEN panels[k].xaxis.locator = "fixed" /\ panels[k].xaxis.locs = sp.xticks
              ELSE panels[k].xaxis.locator = "auto"
           /\ panels[k].xlabel = "x"
           /\ \A i \in 1..k :
                 /\ Visible(panels[i]) = {"left", "bottom"}
                 /\ panels[i].yaxis.ticks_position = "left"

\* C8: after the call every panel but the last has no x-ticks; the last keeps
\* its x-ticks at the bottom (the caller's xticks when given) and alone gets
\* the x-axis label; adjust_spines with the default keep-set has been applied
\* to every panel, so top and right spines are hidden everywhere.
C8_XAxisFinishing == XAxisFinished(1)

\* The same statement for the calls with at least two keys.
C8_HoldsFromTwoKeys == XAxisFinished(2)

====
